---- MODULE Spec2Model ----
(***************************************************************************)
(* Orbitguard: grouping of conjunction reports (CDMs) into events, the     *)
(* fixed-length feature sequence of each event, the served forecast        *)
(* (MLRunner.predict), the export (process_and_export) and the decision    *)
(* step of the sequence-model inference.                                   *)
(*                                                                         *)
(* Conventions of the model                                                *)
(*  - a text is a sequence of one-character strings (the date of an ISO    *)
(*    timestamp is one token);                                             *)
(*  - a float is a record [nan, v]; log-scale quantities (log10 of PC,     *)
(*    log1p of MIN_RNG, forecasts, thresholds) and hours are fixed-point   *)
(*    integers in hundredths: -400 stands for -4.0;                        *)
(*  - a timestamp is a number of seconds since 2026-01-25T00:00:00.        *)
(***************************************************************************)
EXTENDS Integers, Sequences, FiniteSets

VARIABLES
    raw_data,         \* the batch of raw reports (list of dicts) the caller holds
    sequence_length,  \* TimeSeriesPreprocessor.sequence_length of the directly used preprocessor
    sortKind,         \* order the build's sort_values gives to rows with equal CREATED
    weights,          \* the weights file the runner was constructed over
    ready,            \* MLRunner.ready
    fcDelta,          \* the loaded weights: the delta the linear head outputs
    proc,             \* <<>> or <<result of the last TimeSeriesPreprocessor.process(raw_data)>>
    procRuns,         \* number of process calls made on the list the caller holds now
    ml_results,       \* <<>> (predict not called) or <<mapping MLRunner.predict(raw_data) returned>>
    events,           \* <<>> or <<outcome of the last process_and_export>>
    prev,             \* <<>> or <<snapshot of input and outputs before the list was reordered>>
    config,           \* config['thresholds'] of the inference run
    decisions,        \* results of inference, each record with the metadata it came from
    mc_outputs,       \* the outputs of the forward passes CertaintyEstimator sampled
    certainty,        \* <<>> or <<what calculate_uncertainty returned>>
    training,         \* Module.training of the inference model: dropout is active
    forward,          \* the direct model(x) calls made so far, in order
    events_json,      \* the file data/events.json
    init_pc,          \* <<>> or <<events_list a /init request is writing to the file>>
    cdms_response,    \* <<>> or <<what a /cdms request answered>>
    LoggedIn,         \* SpaceTrackClient.LoggedIn of the client fetch_cdms is called on
    session,          \* the requests sent through a client's session, in order
    fetched           \* <<>> or <<what the last fetch_cdms call returned>>

vars == <<raw_data, sequence_length, sortKind, weights, ready, fcDelta, proc, procRuns,
          ml_results, events, prev, config, decisions, mc_outputs, certainty,
         training, forward, events_json, init_pc, cdms_response, LoggedIn, session,
         fetched>>

\* no events.json yet
NoFile == [state |-> "absent", content |-> <<>>]

\* the inference model as model.eval() leaves it, not called yet
InitModelIdle ==
    /\ training = FALSE
    /\ forward = <<>>

\* no export file and no request of the API under way
InitFileIdle ==
    /\ events_json = NoFile
    /\ init_pc = <<>>
    /\ cdms_response = <<>>

\* a client as constructed, no request sent
InitClientIdle ==
    /\ LoggedIn = FALSE
    /\ session = <<>>
    /\ fetched = <<>>

-----------------------------------------------------------------------------
(* Bounds *)

MaxBatch == 2      \* reports in a batch of the served path
MaxHist == 3       \* reports in a batch of the sequencing specification
MaxSeqLen == 2     \* sequence lengths 1..MaxSeqLen next to the served default
MaxInferBatch == 2  \* reports in the file of an inference run
MaxErrBatch == 2   \* reports in a batch of the error-handling specification
MaxSamples == 3    \* forward passes of one certainty estimate, 1..MaxSamples
MaxForward == 2    \* forecasts the caller asks of the inference model

\* requests sent before the last call of a run starts
MaxRequests == 3

-----------------------------------------------------------------------------
(* Texts and numbers *)

Digits == <<"0", "1", "2", "3", "4", "5", "6", "7", "8", "9">>

IsDigit(c) == \E i \in 1..10 : Digits[i] = c

DigitVal(c) == (CHOOSE i \in 1..10 : Digits[i] = c) - 1

NaN == [nan |-> TRUE, v |-> 0]

Num(n) == [nan |-> FALSE, v |-> n]

RECURSIVE DigitsValue(_)
DigitsValue(t) ==
    IF t = <<>> THEN 0
    ELSE 10 * DigitsValue(SubSeq(t, 1, Len(t) - 1)) + DigitVal(t[Len(t)])

\* pd.to_numeric(col, errors='coerce') on one cell: a digit string parses (leading
\* zeros are dropped), anything else, an empty string included, becomes NaN.
ToNumeric(t) ==
    IF t # <<>> /\ \A i \in 1..Len(t) : IsDigit(t[i])
    THEN Num(DigitsValue(t))
    ELSE NaN

RECURSIVE IntText(_)
\* str() of a non-negative integer
IntText(n) ==
    IF n < 10 THEN <<Digits[n + 1]>>
    ELSE IntText(n \div 10) \o <<Digits[(n % 10) + 1]>>

\* str() of a whole float64: 7.0
FloatText(n) == IntText(n) \o <<".", "0">>

Two(n) == <<Digits[(n \div 10) + 1], Digits[(n % 10) + 1]>>

-----------------------------------------------------------------------------
(* Timestamps *)

SecondsPerMinute == 60

SecondsPerHour == 3600

SecondsPerDay == 24 * SecondsPerHour

DateText(day) ==
    CASE day = 0 -> "2026-01-25"
      [] day = 1 -> "2026-01-26"
      [] OTHER -> "2026-01-27"

\* datetime.isoformat() / Timestamp.isoformat() of a time with no sub-second part
IsoText(sec) ==
    <<DateText(sec \div SecondsPerDay), "T">>
        \o Two((sec % SecondsPerDay) \div SecondsPerHour) \o <<":">>
        \o Two((sec % SecondsPerHour) \div SecondsPerMinute) \o <<":">>
        \o Two(sec % SecondsPerMinute)

\* Series.dt.floor('min'): the time minus its remainder modulo one minute
FloorMin(ts) == [sec |-> ts.sec - (ts.sec % SecondsPerMinute), ms |-> 0]

\* dt.replace(second=0, microsecond=0): the minute field kept, the fields below it zeroed
ReplaceSecond0(ts) == [sec |-> (ts.sec \div SecondsPerMinute) * SecondsPerMinute, ms |-> 0]

-----------------------------------------------------------------------------
(* Raw reports *)

\* the TCA field of a report: form "iso" is a timestamp string, "text" a string
\* no parser reads as a time ("TBD"), "none" a missing or empty field
Tca1 == [sec |-> 145118, ms |-> 552, form |-> "iso"]   \* 2026-01-26T16:18:38.552000

Tca2 == [sec |-> 145085, ms |-> 0, form |-> "iso"]     \* 2026-01-26T16:18:05, the same minute

Tca3 == [sec |-> 145142, ms |-> 0, form |-> "iso"]     \* 2026-01-26T16:19:02, the next minute

TcaText == [sec |-> 0, ms |-> 0, form |-> "text"]      \* "TBD"

TcaNone == [sec |-> 0, ms |-> 0, form |-> "none"]      \* None or ""

Created1 == [sec |-> 84617, sep |-> " "]   \* 2026-01-25 23:30:17

Created2 == [sec |-> 85217, sep |-> " "]   \* 2026-01-25 23:40:17

\* one update of an encounter: identifier, creation time, probability, miss distance
Updates ==
    { [CDM_ID |-> <<"1">>, CREATED |-> Created1,
       PC |-> <<"0", ".", "0", "0", "0", "7", "8">>, MIN_RNG |-> <<"3", "5">>],
      [CDM_ID |-> <<"2">>, CREATED |-> Created2,
       PC |-> <<"0", ".", "0", "0", "0", "7", "9">>, MIN_RNG |-> <<"3", "0">>],
      [CDM_ID |-> <<"3">>, CREATED |-> Created2,
       PC |-> <<>>, MIN_RNG |-> <<>>] }

\* one raw report; an empty text stands for a field that is "", None or not in
\* the dict, and absent names those of PC and MIN_RNG that are not in the dict
Report(s1, s2, tca, u, typ) ==
    [CDM_ID |-> u.CDM_ID, SAT_1_ID |-> s1, SAT_2_ID |-> s2, TCA |-> tca,
     CREATED |-> u.CREATED, PC |-> u.PC, MIN_RNG |-> u.MIN_RNG,
     SAT1_OBJECT_TYPE |-> typ, absent |-> {}]

Update(id) == CHOOSE u \in Updates : u.CDM_ID = id

\* the reports a served batch is drawn from: an encounter with two updates, a third
\* report of it (another TCA in the same minute, created together with the second
\* update, no PC and no MIN_RNG), the same pair one minute later, the same pair
\* with a leading zero in the primary id, a non-numeric primary id on debris and
\* on a payload, another secondary, and the first update with its CREATED
\* written "2026-01-25T23:30:17"
Pool ==
    { Report(<<"7">>, <<"9">>, Tca1, Update(<<"1">>), "PAYLOAD"),
      Report(<<"7">>, <<"9">>, Tca1, Update(<<"2">>), "PAYLOAD"),
      Report(<<"7">>, <<"9">>, Tca2, Update(<<"3">>), "PAYLOAD"),
      Report(<<"7">>, <<"9">>, Tca3, Update(<<"1">>), "PAYLOAD"),
      Report(<<"0", "7">>, <<"9">>, Tca1, Update(<<"1">>), "PAYLOAD"),
      Report(<<"x">>, <<"9">>, Tca1, Update(<<"1">>), "DEBRIS"),
      Report(<<"x">>, <<"9">>, Tca1, Update(<<"1">>), "PAYLOAD"),
      Report(<<"7">>, <<"5">>, Tca1, Update(<<"1">>), "PAYLOAD"),
      [Report(<<"7">>, <<"9">>, Tca1, Update(<<"1">>), "PAYLOAD")
          EXCEPT !.CREATED = [sec |-> Created1.sec, sep |-> "T"]] }

\* the reports of the sequencing specification: one pair, two TCA minutes
HistPool ==
    { Report(<<"7">>, <<"9">>, tca, u, "PAYLOAD") : tca \in {Tca1, Tca3}, u \in Updates }

Batches(pool, n) == UNION { [1..k -> pool] : k \in 0..n }

\* an update whose PC and MIN_RNG are not numbers
BadNumbers ==
    [CDM_ID |-> <<"4">>, CREATED |-> Created2, PC |-> <<"x">>, MIN_RNG |-> <<"x">>]

\* well-formed reports of two events
GoodReports ==
    { Report(<<"7">>, <<"9">>, Tca1, Update(<<"1">>), "PAYLOAD"),
      Report(<<"7">>, <<"5">>, Tca1, Update(<<"2">>), "PAYLOAD") }

\* the reports a batch of the error-handling specification is drawn from: the
\* well-formed ones, a report without SAT_1_ID, one without TCA, one whose TCA is
\* no timestamp, one whose PC and MIN_RNG are no numbers, one whose PC and
\* MIN_RNG are empty, one whose dict has no MIN_RNG key
ErrPool ==
    GoodReports \cup
    { Report(<<>>, <<"9">>, Tca1, Update(<<"1">>), "PAYLOAD"),
      Report(<<"7">>, <<"9">>, TcaNone, Update(<<"1">>), "PAYLOAD"),
      Report(<<"7">>, <<"9">>, TcaText, Update(<<"1">>), "PAYLOAD"),
      Report(<<"7">>, <<"9">>, Tca1, BadNumbers, "PAYLOAD"),
      Report(<<"7">>, <<"9">>, Tca1, Update(<<"3">>), "PAYLOAD"),
      [Report(<<"7">>, <<"5">>, Tca1, Update(<<"1">>), "PAYLOAD")
          EXCEPT !.MIN_RNG = <<>>, !.absent = {"MIN_RNG"}] }

\* what the poll after a batch may bring: a well-formed batch, or one report
\* whose TCA is no timestamp
NextBatches ==
    { <<Report(<<"7">>, <<"9">>, Tca1, Update(<<"1">>), "PAYLOAD")>>,
      <<Report(<<"7">>, <<"9">>, TcaText, Update(<<"1">>), "PAYLOAD")>> }

-----------------------------------------------------------------------------
(* TimeSeriesPreprocessor (app/backend/ml/preprocessor.py) *)

RECURSIVE Pow10(_)
Pow10(k) == IF k = 0 THEN 1 ELSE 10 * Pow10(k - 1)

DotAt(t) == CHOOSE i \in 1..Len(t) : t[i] = "."

\* a decimal text "d.ddd" or "ddd" as a float, else NaN; the float is held as a
\* whole number of units of 10^-5, which is exact for every PC text of the pool
ToNumericDecimal(t) ==
    LET scale == 5 IN
    IF t = <<>> THEN NaN
    ELSE IF \A i \in 1..Len(t) : IsDigit(t[i]) THEN Num(DigitsValue(t) * Pow10(scale))
    ELSE IF /\ Cardinality({i \in 1..Len(t) : t[i] = "."}) = 1
            /\ \A i \in 1..Len(t) : IsDigit(t[i]) \/ t[i] = "."
            /\ Len(t) > 1
            /\ Len(t) - DotAt(t) <= scale
         THEN Num(DigitsValue(SubSeq(t, 1, DotAt(t) - 1) \o SubSeq(t, DotAt(t) + 1, Len(t)))
                  * Pow10(scale - (Len(t) - DotAt(t))))
         ELSE NaN

\* _clean_dataframe on one row: ids, PC and MIN_RNG through to_numeric(coerce),
\* PC.fillna(0.0), CREATED and TCA through to_datetime (a missing TCA becomes NaT)
CleanRow(r) ==
    [SAT_1_ID |-> ToNumeric(r.SAT_1_ID),
     SAT_2_ID |-> ToNumeric(r.SAT_2_ID),
     PC |-> IF ToNumericDecimal(r.PC).nan THEN 0 ELSE ToNumericDecimal(r.PC).v,
     MIN_RNG |-> ToNumeric(r.MIN_RNG),
     CREATED |-> r.CREATED.sec,
     TCA |-> [sec |-> r.TCA.sec, ms |-> r.TCA.ms, nat |-> r.TCA.form = "none"]]

CleanDataframe(raw) == [i \in 1..Len(raw) |-> CleanRow(raw[i])]

\* a numeric column holding a NaN is float64, a column of whole numbers is int64
IsFloatColumn(df, col) == \E i \in 1..Len(df) : df[i][col].nan

\* f"{x}" of a group-key id taken from column col
IdText(df, col, n) == IF IsFloatColumn(df, col) THEN FloatText(n) ELSE IntText(n)

\* the group key of row i: (SAT_1_ID, SAT_2_ID, TCA_GROUP)
GroupName(df, i) == <<df[i].SAT_1_ID.v, df[i].SAT_2_ID.v, FloorMin(df[i].TCA).sec>>

\* groupby drops the rows whose key has a NaN
GroupedRows(df) ==
    {i \in 1..Len(df) : ~df[i].SAT_1_ID.nan /\ ~df[i].SAT_2_ID.nan /\ ~df[i].TCA.nat}

GroupNames(df) == {GroupName(df, i) : i \in GroupedRows(df)}

NameLess(a, b) ==
    \/ a[1] < b[1]
    \/ a[1] = b[1] /\ a[2] < b[2]
    \/ a[1] = b[1] /\ a[2] = b[2] /\ a[3] < b[3]

RECURSIVE SortNames(_)
\* groupby(sort=True) iterates the groups in ascending key order
SortNames(S) ==
    IF S = {} THEN <<>>
    ELSE LET m == CHOOSE a \in S : \A b \in S \ {a} : NameLess(a, b)
         IN <<m>> \o SortNames(S \ {m})

GroupRows(df, name) == {i \in GroupedRows(df) : GroupName(df, i) = name}

\* sort_values('CREATED') uses the default quicksort, which promises no order
\* among equal keys: the build either keeps the row order or it does not
CreatedBefore(df, kind, i, j) ==
    \/ df[i].CREATED < df[j].CREATED
    \/ df[i].CREATED = df[j].CREATED /\ (IF kind = "stable" THEN i < j ELSE i > j)

RECURSIVE SortValuesCreated(_, _, _)
SortValuesCreated(df, kind, S) ==
    IF S = {} THEN <<>>
    ELSE LET m == CHOOSE i \in S : \A j \in S \ {i} : CreatedBefore(df, kind, i, j)
         IN <<m>> \o SortValuesCreated(df, kind, S \ {m})


\* log10(max(pc, 1e-30)) in hundredths, pc in units of 10^-5
PcLog(pc) ==
    CASE pc = 0 -> -3000
      [] pc = 78 -> -311
      [] pc = 79 -> -310

\* log1p(nan_to_num(min_rng, nan=100000.0)) in hundredths
MinRngLog(rng) ==
    LET x == IF rng.nan THEN 100000 ELSE rng.v
    IN CASE x = 30 -> 343
         [] x = 35 -> 358
         [] x = 100000 -> 1151

\* (TCA - CREATED).total_seconds() / 3600.0 in hundredths of an hour
TimeToTca(row) == ((row.TCA.sec - row.CREATED) * 100) \div SecondsPerHour

\* _extract_features: one row [PC_Log, MinRng_Log, Time] per report of the sorted group
ExtractFeatures(df, order) ==
    [k \in 1..Len(order) |->
        <<PcLog(df[order[k]].PC), MinRngLog(df[order[k]].MIN_RNG), TimeToTca(df[order[k]])>>]

ZeroRow == <<0, 0, 0>>

\* the mutant of PadOrTruncate: pads on the right and keeps the oldest rows
PadOrTruncateRight(features, L) ==
    IF Len(features) >= L
    THEN SubSeq(features, 1, L)
    ELSE features \o [k \in 1..(L - Len(features)) |-> ZeroRow]

\* the mutant of PadOrTruncate: one padding row too few, one kept row too many
PadOrTruncateOffByOne(features, L) ==
    IF Len(features) > L
    THEN SubSeq(features, Len(features) - L, Len(features))
    ELSE [k \in 1..(L - Len(features) - 1) |-> ZeroRow] \o features

\* _pad_or_truncate_sequence: features[-L:] or zero rows stacked above the features
PadOrTruncate(features, L) ==
    IF Len(features) >= L
    THEN SubSeq(features, Len(features) - L + 1, Len(features))
    ELSE [k \in 1..(L - Len(features)) |-> ZeroRow] \o features

\* the mutant of EventKey: the key leaves out the secondary's id
EventKeyPrimaryOnly(df, name) ==
    IdText(df, "SAT_1_ID", name[1]) \o <<"_">> \o IsoText(name[3])

\* the KEY of a group: f"{sat1_id}_{sat2_id}_{tca_time.isoformat()}"
EventKey(df, name) ==
    IdText(df, "SAT_1_ID", name[1]) \o <<"_">> \o IdText(df, "SAT_2_ID", name[2])
        \o <<"_">> \o IsoText(name[3])

\* the mutant of ProcessGroup: the latest miss distance is read from the oldest
\* report of the group
ProcessGroupOldestRng(df, name, L, kind) ==
    LET order == SortValuesCreated(df, kind, GroupRows(df, name))
        last == df[order[Len(order)]]
    IN [seq |-> PadOrTruncate(ExtractFeatures(df, order), L),
        target |-> last.PC,
        meta |-> [SAT_1_ID |-> name[1],
                  SAT_2_ID |-> name[2],
                  TCA |-> IsoText(name[3]),
                  LATEST_MIN_RNG |-> df[order[1]].MIN_RNG,
                  LATEST_PC |-> last.PC,
                  LATEST_CREATED |-> IsoText(last.CREATED),
                  KEY |-> EventKey(df, name)],
        history |-> [k \in 1..Len(order) |->
                        [index |-> order[k],
                         CREATED |-> df[order[k]].CREATED,
                         PC |-> df[order[k]].PC,
                         MIN_RNG |-> df[order[k]].MIN_RNG]]]

\* one iteration of the loop over the groups
ProcessGroup(df, name, L, kind) ==
    LET order == SortValuesCreated(df, kind, GroupRows(df, name))
        last == df[order[Len(order)]]
    IN [seq |-> PadOrTruncate(ExtractFeatures(df, order), L),
        target |-> last.PC,
        meta |-> [SAT_1_ID |-> name[1],
                  SAT_2_ID |-> name[2],
                  TCA |-> IsoText(name[3]),
                  LATEST_MIN_RNG |-> last.MIN_RNG,
                  LATEST_PC |-> last.PC,
                  LATEST_CREATED |-> IsoText(last.CREATED),
                  KEY |-> EventKey(df, name)],
        history |-> [k \in 1..Len(order) |->
                        [index |-> order[k],
                         CREATED |-> df[order[k]].CREATED,
                         PC |-> df[order[k]].PC,
                         MIN_RNG |-> df[order[k]].MIN_RNG]]]

\* a column of the frame exists when some dict of the list has the key
HasColumn(raw, col) == \E i \in 1..Len(raw) : col \notin raw[i].absent

\* what makes process raise: pd.DataFrame([]) has no columns and df['CREATED']
\* raises KeyError; to_datetime raises on a string it cannot parse; with a group
\* to work on, group['PC'] and group['MIN_RNG'] raise KeyError when no dict of
\* the list has the key
ProcessRaises(raw) ==
    \/ Len(raw) = 0
    \/ \E i \in 1..Len(raw) : raw[i].TCA.form = "text"
    \/ /\ GroupedRows(CleanDataframe(raw)) # {}
       /\ ~(HasColumn(raw, "PC") /\ HasColumn(raw, "MIN_RNG"))

\* TimeSeriesPreprocessor.process: one entry per group, in ascending group-key
\* order; sequences, targets, meta_list and history_list are the four columns of it
ProcessResult(raw, L, kind) ==
    IF ProcessRaises(raw) THEN [raised |-> TRUE, out |-> <<>>]
    ELSE LET df == CleanDataframe(raw)
             names == SortNames(GroupNames(df))
         IN [raised |-> FALSE,
             out |-> [g \in 1..Len(names) |-> ProcessGroup(df, names[g], L, kind)]]

\* the mutant of RawAfterProcess: the cleaning writes the floored TCA back into
\* the caller's dicts
RawAfterProcessInPlace(raw) ==
    [i \in 1..Len(raw) |->
        [raw[i] EXCEPT !.TCA = [sec |-> FloorMin(raw[i].TCA).sec, ms |-> 0, form |-> @.form]]]

\* pd.DataFrame(raw_data) copies the records: the caller's list is as it was
RawAfterProcess(raw) == raw


-----------------------------------------------------------------------------
(* CollisionRiskSkipLSTM and MLRunner (backend/ml/model.py, app/backend/ml/runner.py) *)

RunnerSeqLen == 5

\* the weights file MLRunner.__init__ finds: one torch.load reads, none, or one
\* torch.load or load_state_dict raises on
WeightFiles == {"loadable", "missing", "corrupt"}

\* MLRunner.__init__: the load is wrapped in try/except, nothing is raised, and
\* ready tells whether the weights were loaded
RunnerInit(w) == [raised |-> FALSE, ready |-> (w = "loadable")]

HighRiskLog == -400

MediumRiskLog == -500

PlaceholderCertainty == 95

\* the deltas the linear head of a loaded model may output; the recurrent encoder
\* itself is not modelled, the weights are an input of the model
Deltas == {-490, -150, 0}

\* the mutant of Forward: the skip connection takes the first row of the sequence
ForwardFirstRow(seq, delta) == seq[1][1] + delta

\* forward: latest_pc + delta, latest_pc = x[:, -1, 0]
Forward(seq, delta) == seq[Len(seq)][1] + delta

\* forward on a batch X of shape (B, L, 3): a tensor of shape (B, 1); deltas[b] is
\* what the linear head gives for item b
ForwardBatch(X, deltas) == [b \in 1..Len(X) |-> <<Forward(X[b], deltas[b])>>]

\* forward on any batch of equally shaped sequences: forward checks nothing
\* itself; nn.LSTM raises RuntimeError when the rows do not have input_size = 3
\* features and takes a sequence of any length
ForwardOutcome(X, deltas) ==
    IF \E b \in 1..Len(X) : \E r \in 1..Len(X[b]) : Len(X[b][r]) # 3
    THEN [raised |-> "RuntimeError", out |-> <<>>]
    ELSE [raised |-> "none", out |-> ForwardBatch(X, deltas)]

\* the status MLRunner.predict derives from the forecast alone
RunnerStatus(pred) ==
    IF pred >= HighRiskLog THEN "RED"
    ELSE IF pred >= MediumRiskLog THEN "YELLOW"
    ELSE "GREEN"

\* a probability: 0.0 or 10**x
ProbZero == [zero |-> TRUE, pow10 |-> 0]

ProbPow10(x) == [zero |-> FALSE, pow10 |-> x]

\* results[key] of one prediction
PredictionOf(pred_risk) ==
    [AI_RISK_LOG10 |-> pred_risk,
     AI_RISK_PROB |-> ProbPow10(pred_risk),
     AI_STATUS |-> RunnerStatus(pred_risk),
     AI_CERTAINTY |-> PlaceholderCertainty]

\* the mutant of PredictSkips: a runner that is not ready predicts all the same
PredictSkipsEmptyOnly(isReady, raw) == Len(raw) = 0

\* if not self.ready or not raw_data: return {}
PredictSkips(isReady, raw) == ~isReady \/ Len(raw) = 0

\* an exception is raised inside the try block of predict (and caught there)
PredictRaises(raw, isReady, kind) ==
    ~PredictSkips(isReady, raw) /\ ProcessResult(raw, RunnerSeqLen, kind).raised

\* the mutant of ReadyAfterPredict: a caught exception switches the runner off
ReadyAfterPredictLatched(raw, isReady, kind) == isReady /\ ~PredictRaises(raw, isReady, kind)

\* self.ready after predict: no branch of predict assigns it
ReadyAfterPredict(raw, isReady, kind) == isReady

\* MLRunner.predict: {} when the runner is not ready, the batch is empty, no
\* sequence came out or anything raised; else results[meta['KEY']] for every
\* event, a later event overwriting an earlier one with the same KEY
PredictResult(raw, isReady, delta, kind) ==
    IF PredictSkips(isReady, raw) THEN <<>>
    ELSE LET p == ProcessResult(raw, RunnerSeqLen, kind)
         IN IF p.raised \/ Len(p.out) = 0 THEN <<>>
            ELSE LET keys == {p.out[g].meta.KEY : g \in 1..Len(p.out)}
                     lastOf(k) == CHOOSE g \in 1..Len(p.out) :
                                     /\ p.out[g].meta.KEY = k
                                     /\ \A h \in 1..Len(p.out) :
                                            p.out[h].meta.KEY = k => h <= g
                     outputs == ForwardBatch([g \in 1..Len(p.out) |-> p.out[g].seq],
                                             [g \in 1..Len(p.out) |-> delta])
                     predictions == [g \in 1..Len(outputs) |-> outputs[g][1]]
                 IN [k \in keys |-> PredictionOf(predictions[lastOf(k)])]


-----------------------------------------------------------------------------
(* process_and_export (app/backend/spacetrack_client.py) *)

None == [none |-> TRUE, v |-> 0]

Some(x) == [none |-> FALSE, v |-> x]

\* truth value of a field read with cdm.get: an empty string is falsy
Truthy(t) == t # <<>>

\* int(s) of a string raises ValueError unless s is a digit string
IntRaises(t) == ~(t # <<>> /\ \A i \in 1..Len(t) : IsDigit(t[i]))

\* dateutil.parser.parse(tca_str).replace(second=0, microsecond=0).isoformat(),
\* tca_str itself when the parse raises
TcaKey(tca) == IF tca.form = "text" THEN <<"TBD">> ELSE IsoText(ReplaceSecond0(tca).sec)

\* encounter_key = f"{sat1}_{sat2}_{tca_key}", sat1 and sat2 as the report has them
EncounterKey(cdm) == cdm.SAT_1_ID \o <<"_">> \o cdm.SAT_2_ID \o <<"_">> \o TcaKey(cdm.TCA)

\* float(cdm.get('MIN_RNG')) if cdm.get('MIN_RNG') else None, None on ValueError
MinRngVal(cdm) ==
    IF ToNumeric(cdm.MIN_RNG).nan THEN None ELSE Some(ToNumeric(cdm.MIN_RNG).v)

\* float(cdm.get('PC')) if cdm.get('PC') else 0.0, 0.0 on ValueError
PcVal(cdm) == IF ToNumericDecimal(cdm.PC).nan THEN 0 ELSE ToNumericDecimal(cdm.PC).v

CdmItem(cdm) ==
    [CDM_ID |-> cdm.CDM_ID, CREATED |-> cdm.CREATED, TCA |-> cdm.TCA,
     MIN_RNG |-> MinRngVal(cdm), PC |-> PcVal(cdm)]

\* the mutant of DefaultStatus: an encounter starts out GREEN
DefaultStatusGreen == "GREEN"

\* "AI_STATUS": "GRAY" of a new encounter
DefaultStatus == "GRAY"

\* the SAT_2 encounter object as first created, the ML result merged in when
\* ml_results has the encounter key; encounter_key is the key sat2_encounters
\* holds it under; NAME, RCS, OBJ_TYP and EXCL_VOL are passed through and left out
NewEncounter(cdm, ml) ==
    LET key == EncounterKey(cdm)
        base == [encounter_key |-> key,
                 SAT_2 |-> [ID |-> DigitsValue(cdm.SAT_2_ID)],
                 CDMS |-> <<>>,
                 TCA |-> cdm.TCA,
                 AI_RISK_LOG10 |-> None,
                 AI_STATUS |-> DefaultStatus,
                 AI_CERTAINTY |-> 0,
                 AI_RISK_PROB |-> ProbZero,
                 MAX_PC |-> 0,
                 MIN_RANGE |-> 0,
                 MSG_COUNT |-> 0,
                 sat1_id |-> cdm.SAT_1_ID]
    IN IF key \in DOMAIN ml
       THEN [base EXCEPT !.AI_RISK_LOG10 = Some(ml[key].AI_RISK_LOG10),
                         !.AI_STATUS = ml[key].AI_STATUS,
                         !.AI_CERTAINTY = ml[key].AI_CERTAINTY,
                         !.AI_RISK_PROB = ml[key].AI_RISK_PROB]
       ELSE base

EncIndex(encs, key) == CHOOSE e \in 1..Len(encs) : encs[e].encounter_key = key

\* one iteration of the loop over raw_data; st = [raised, sat1s, encs] holds the
\* insertion-ordered keys of sat1_map and the values of sat2_encounters
ExportStep(st, cdm, ml) ==
    IF st.raised THEN st
    ELSE IF ~(Truthy(cdm.SAT_1_ID) /\ Truthy(cdm.SAT_2_ID) /\ cdm.TCA.form # "none") THEN st
    ELSE IF cdm.SAT1_OBJECT_TYPE # "PAYLOAD" THEN st
    ELSE LET key == EncounterKey(cdm)
             newSat1 == \A k \in 1..Len(st.sat1s) : st.sat1s[k] # cdm.SAT_1_ID
             newEnc == \A e \in 1..Len(st.encs) : st.encs[e].encounter_key # key
         IN IF (newSat1 /\ IntRaises(cdm.SAT_1_ID)) \/ (newEnc /\ IntRaises(cdm.SAT_2_ID))
            THEN [st EXCEPT !.raised = TRUE]
            ELSE LET sat1s == IF newSat1 THEN Append(st.sat1s, cdm.SAT_1_ID) ELSE st.sat1s
                     encs == IF newEnc THEN Append(st.encs, NewEncounter(cdm, ml))
                             ELSE st.encs
                     e == EncIndex(encs, key)
                 IN [raised |-> FALSE,
                     sat1s |-> sat1s,
                     encs |-> [encs EXCEPT ![e].CDMS = Append(@, CdmItem(cdm))]]

RECURSIVE ExportLoop(_, _, _)
ExportLoop(raw, n, ml) ==
    IF n = 0 THEN [raised |-> FALSE, sat1s |-> <<>>, encs |-> <<>>]
    ELSE ExportStep(ExportLoop(raw, n - 1, ml), raw[n], ml)


\* the indices of keys in ascending key order, equal keys in index order: the
\* order list.sort(key=...) gives (it is stable)
RECURSIVE StableOrder(_, _)
StableOrder(keys, S) ==
    IF S = {} THEN <<>>
    ELSE LET m == CHOOSE i \in S : \A j \in S \ {i} :
                      keys[i] < keys[j] \/ (keys[i] = keys[j] /\ i < j)
         IN <<m>> \o StableOrder(keys, S \ {m})

SortedBy(seq, keys) ==
    LET order == StableOrder(keys, 1..Len(seq))
    IN [k \in 1..Len(seq) |-> seq[order[k]]]

\* the rank of a CREATED string in string order: date, then the separator
\* (a space sorts before 'T'), then the time of day
CreatedStrKey(c) ==
    ((c.sec \div SecondsPerDay) * 2 + (IF c.sep = " " THEN 0 ELSE 1)) * SecondsPerDay
        + (c.sec % SecondsPerDay)

\* the rank of a TCA string in string order; "TBD" sorts after every "2026-..."
TcaStrKey(t) == IF t.form = "text" THEN 3 * SecondsPerDay * 1000 ELSE t.sec * 1000 + t.ms

SetMax(S) == CHOOSE x \in S : \A y \in S : y <= x

SetMin(S) == CHOOSE x \in S : \A y \in S : x <= y

\* the second loop: CDMS sorted by CREATED, the aggregates, _sat1_id popped
FinishEncounter(enc) ==
    LET cdms == SortedBy(enc.CDMS, [k \in 1..Len(enc.CDMS) |-> CreatedStrKey(enc.CDMS[k].CREATED)])
        pcs == {cdms[k].PC : k \in 1..Len(cdms)}
        rngs == {cdms[k].MIN_RNG.v : k \in {k \in 1..Len(cdms) : ~cdms[k].MIN_RNG.none}}
    IN [encounter_key |-> enc.encounter_key,
        SAT_2 |-> enc.SAT_2,
        CDMS |-> cdms,
        TCA |-> enc.TCA,
        AI_RISK_LOG10 |-> enc.AI_RISK_LOG10,
        AI_STATUS |-> enc.AI_STATUS,
        AI_CERTAINTY |-> enc.AI_CERTAINTY,
        AI_RISK_PROB |-> enc.AI_RISK_PROB,
        MAX_PC |-> IF pcs = {} THEN 0 ELSE SetMax(pcs),
        MIN_RANGE |-> IF rngs = {} THEN 0 ELSE SetMin(rngs),
        MSG_COUNT |-> Len(cdms)]

\* the encounters of one sat1_map entry, in insertion order, then sorted by TCA
Sat2Objs(encs, sat1) ==
    LET mine == SelectSeq(encs, LAMBDA e : e.sat1_id = sat1)
        done == [k \in 1..Len(mine) |-> FinishEncounter(mine[k])]
    IN SortedBy(done, [k \in 1..Len(done) |-> TcaStrKey(done[k].TCA)])

\* events_list: one entry per key of sat1_map, sorted by SAT_1 ID
EventsList(st) ==
    LET entries == [k \in 1..Len(st.sat1s) |->
                       [SAT_1 |-> [ID |-> DigitsValue(st.sat1s[k]), OBJ_TYP |-> "PAYLOAD"],
                        SAT_2_OBJS |-> Sat2Objs(st.encs, st.sat1s[k])]]
    IN SortedBy(entries, [k \in 1..Len(entries) |-> entries[k].SAT_1.ID])

\* process_and_export from the fetched list on: None for an empty list, an
\* uncaught exception from int(), else events_list; ml is what predict returned
ExportOutcome(raw, ml) ==
    IF Len(raw) = 0 THEN [ret |-> "none", events |-> <<>>]
    ELSE LET st == ExportLoop(raw, Len(raw), ml)
         IN IF st.raised THEN [ret |-> "raised", events |-> <<>>]
            ELSE [ret |-> "ok", events |-> EventsList(st)]


-----------------------------------------------------------------------------
(* inference (app/backend/src/main.py) over the pipeline preprocessor *)
(* (app/pipeline/preprocessor.py). The forecast, the thresholds and the     *)
(* probabilities of this step are numbers on one scale, held in units of    *)
(* 10^-5: -400000 stands for -4.0 and 79 for 0.00079.                       *)

NoConfig == [high_risk |-> 0, medium_risk |-> 0, reaction_time_hours |-> 0,
             miss_distance_critical |-> 0]

\* the thresholds a config file may set
Configs ==
    [high_risk : {-400000, -700000}, medium_risk : {-500000}, reaction_time_hours : {6},
     miss_distance_critical : {1000, 20}]

\* forecasts the model may return: around the thresholds, around a latest
\* probability of 0.00079, and around zero
Forecasts ==
    {-800000, -500000, -450000, -400000, -350000, -1, 0, 1, 71, 72, 79, 86, 87}

Tca4 == [sec |-> 145130, ms |-> 0, form |-> "iso"]      \* 2026-01-26T16:18:50

TcaMin == [sec |-> 145140, ms |-> 0, form |-> "iso"]    \* 2026-01-26T16:19:00

\* the reports of an inference run: created 20 h before a TCA with and without
\* seconds, 10 s after the last opportunity of the first TCA minute (6 h before
\* 16:18:00), and 2 h after it
InferencePool ==
    { [Report(<<"7">>, <<"9">>, Tca4, Update(<<"2">>), "PAYLOAD")
          EXCEPT !.CREATED = [sec |-> Tca4.sec - 20 * SecondsPerHour, sep |-> " "]],
      [Report(<<"7">>, <<"9">>, TcaMin, Update(<<"3">>), "PAYLOAD")
          EXCEPT !.CREATED = [sec |-> TcaMin.sec - 20 * SecondsPerHour, sep |-> " "]],
      [Report(<<"7">>, <<"5">>, Tca4, Update(<<"1">>), "PAYLOAD")
          EXCEPT !.CREATED = [sec |-> FloorMin(Tca4).sec - 6 * SecondsPerHour + 10,
                              sep |-> " "],
                 !.MIN_RNG = <<"2", "0", "0", "0">>],
      [Report(<<"7">>, <<"5">>, Tca4, Update(<<"1">>), "PAYLOAD")
          EXCEPT !.CREATED = [sec |-> FloorMin(Tca4).sec - 4 * SecondsPerHour,
                              sep |-> " "]] }

RECURSIVE TextLess(_, _)
\* the order of two digit strings as strings
TextLess(a, b) ==
    IF a = <<>> THEN b # <<>>
    ELSE IF b = <<>> THEN FALSE
    ELSE IF a[1] = b[1] THEN TextLess(Tail(a), Tail(b))
    ELSE DigitVal(a[1]) < DigitVal(b[1])

\* the pipeline's _clean_dataframe names the columns SAT1_ID and SAT2_ID, which
\* no report has: the ids stay the strings they are, and the group key of row i
\* is (SAT_1_ID string, SAT_2_ID string, TCA_GROUP)
PipelineGroupName(raw, i) ==
    <<raw[i].SAT_1_ID, raw[i].SAT_2_ID, FloorMin(CleanRow(raw[i]).TCA).sec>>

\* groupby drops the rows with a missing id or a NaT TCA
PipelineGroupedRows(raw) ==
    {i \in 1..Len(raw) :
        raw[i].SAT_1_ID # <<>> /\ raw[i].SAT_2_ID # <<>> /\ raw[i].TCA.form = "iso"}

PipelineNameLess(a, b) ==
    \/ TextLess(a[1], b[1])
    \/ a[1] = b[1] /\ TextLess(a[2], b[2])
    \/ a[1] = b[1] /\ a[2] = b[2] /\ a[3] < b[3]

RECURSIVE PipelineSortNames(_)
PipelineSortNames(S) ==
    IF S = {} THEN <<>>
    ELSE LET m == CHOOSE a \in S : \A b \in S \ {a} : PipelineNameLess(a, b)
         IN <<m>> \o PipelineSortNames(S \ {m})

\* one iteration of the pipeline's loop over the groups: the metadata; TCA is the
\* group's TCA_GROUP, the minute-floored timestamp; members lists the reports of
\* the group by their place in the list, oldest first
PipelineGroup(raw, name, kind) ==
    LET df == CleanDataframe(raw)
        order == SortValuesCreated(df, kind,
                     {i \in PipelineGroupedRows(raw) : PipelineGroupName(raw, i) = name})
        last == df[order[Len(order)]]
    IN [SAT_1_ID |-> name[1],
        SAT_2_ID |-> name[2],
        TCA |-> name[3],
        LATEST_MIN_RNG |-> IF last.MIN_RNG.nan THEN [kind |-> "nan", v |-> 0]
                           ELSE [kind |-> "num", v |-> last.MIN_RNG.v],
        LATEST_PC |-> last.PC,
        LATEST_CREATED |-> last.CREATED,
        members |-> order]

\* meta_list of the pipeline's process, in ascending group-key order
PipelineMetas(raw, kind) ==
    LET names == PipelineSortNames(
                     {PipelineGroupName(raw, i) : i \in PipelineGroupedRows(raw)})
    IN [g \in 1..Len(names) |-> PipelineGroup(raw, names[g], kind)]

\* the mutant of RiskStatus: the proximity rule is tried after the medium threshold
RiskStatusProximityLast(pred_pc, miss_dist, cfg) ==
    IF pred_pc >= cfg.high_risk THEN "RED"
    ELSE IF pred_pc >= cfg.medium_risk THEN "YELLOW"
    ELSE IF miss_dist.kind = "num" /\ miss_dist.v < cfg.miss_distance_critical THEN "RED"
    ELSE "GREEN"

\* A. Traffic Light Status; "is not None" lets a NaN through, whose comparison is false
RiskStatus(pred_pc, miss_dist, cfg) ==
    IF pred_pc >= cfg.high_risk THEN "RED"
    ELSE IF miss_dist.kind = "num" /\ miss_dist.v < cfg.miss_distance_critical THEN "RED"
    ELSE IF pred_pc >= cfg.medium_risk THEN "YELLOW"
    ELSE "GREEN"

\* round(x, 2) of a number of seconds in hours, in hundredths; -0.0 is 0
RoundHours(secs) == (2 * 100 * secs + SecondsPerHour) \div (2 * SecondsPerHour)

\* the mutant of HoursRemaining: a window that has passed is reported as 0
HoursRemainingClamped(meta, cfg) ==
    LET h == RoundHours((meta.TCA - cfg.reaction_time_hours * SecondsPerHour)
                            - meta.LATEST_CREATED)
    IN IF h < 0 THEN 0 ELSE h

\* B. Time of Last Opportunity
HoursRemaining(meta, cfg) ==
    RoundHours((meta.TCA - cfg.reaction_time_hours * SecondsPerHour) - meta.LATEST_CREATED)

\* the mutant of RiskTrend: any change of the forecast against the latest
\* probability is a trend
RiskTrendNoBand(pred_pc, curr_pc_raw) ==
    IF pred_pc > curr_pc_raw THEN "INCREASING"
    ELSE IF pred_pc < curr_pc_raw THEN "DECREASING"
    ELSE "STABLE"

\* C. Risk Trend: delta against 10% of the latest raw probability
RiskTrend(pred_pc, curr_pc_raw) ==
    IF 10 * (pred_pc - curr_pc_raw) > curr_pc_raw THEN "INCREASING"
    ELSE IF 10 * (pred_pc - curr_pc_raw) < -curr_pc_raw THEN "DECREASING"
    ELSE "STABLE"

\* one iteration of the loop over the predictions: the record appended to
\* results (Certainty is passed through from the estimator and left out)
DecisionRecord(pred_pc, meta, cfg) ==
    [SAT_1 |-> meta.SAT_1_ID,
     SAT_2 |-> meta.SAT_2_ID,
     Predicted_PC |-> pred_pc,
     Latest_Reported_PC |-> meta.LATEST_PC,
     TCA |-> meta.TCA,
     Risk_Status |-> RiskStatus(pred_pc, meta.LATEST_MIN_RNG, cfg),
     Hours_To_Decision |-> HoursRemaining(meta, cfg),
     Risk_Trend |-> RiskTrend(pred_pc, meta.LATEST_PC)]

\* results of inference for the forecasts preds, one entry per prediction, each
\* kept with the metadata it was made from
InferenceResults(raw, preds, cfg, kind) ==
    LET metas == PipelineMetas(raw, kind)
    IN [g \in 1..Len(metas) |->
           [meta |-> metas[g], record |-> DecisionRecord(preds[g], metas[g], cfg)]]

InitDecide ==
    /\ raw_data \in Batches(InferencePool, MaxInferBatch) \ {<<>>}
    /\ sequence_length = RunnerSeqLen
    /\ sortKind = "stable"
    /\ weights = "missing"
    /\ ready = FALSE
    /\ fcDelta = 0
    /\ proc = <<>>
    /\ procRuns = 0
    /\ ml_results = <<>>
    /\ events = <<>>
    /\ prev = <<>>
    /\ config \in Configs
    /\ decisions = <<>>
    /\ mc_outputs = <<>>
    /\ certainty = <<>>
    /\ InitModelIdle
    /\ InitFileIdle
    /\ InitClientIdle

\* inference from the loaded file on: grouping, one forecast per event, the loop
\* over the predictions
Inference ==
    /\ decisions = <<>>
    /\ \E preds \in [1..Len(PipelineMetas(raw_data, sortKind)) -> Forecasts] :
          decisions' = InferenceResults(raw_data, preds, config, sortKind)
    /\ UNCHANGED <<raw_data, sequence_length, sortKind, weights, ready, fcDelta, proc,
                   procRuns, ml_results, events, prev, config, mc_outputs, certainty,
                   training, forward, init_pc, cdms_response, LoggedIn, session, fetched,
                   events_json>>

NextDecide == Inference

SpecDecide == InitDecide /\ [][NextDecide]_vars

-----------------------------------------------------------------------------
(* CertaintyEstimator.calculate_uncertainty (app/model/lstm_model.py). An   *)
(* output of a forward pass is held in units of 10^-4, the standard         *)
(* deviation in units of 10^-7, the certainty in units of 10^-4.            *)

\* what one forward pass with dropout may return
OutputValues == {0, 1, 2, 3, 5}

RECURSIVE SumOf(_)
SumOf(xs) == IF xs = <<>> THEN 0 ELSE Head(xs) + SumOf(Tail(xs))

RECURSIVE IsqrtIn(_, _, _)
\* the largest r in lo..hi with r * r <= n
IsqrtIn(n, lo, hi) ==
    IF lo = hi THEN lo
    ELSE LET mid == (lo + hi + 1) \div 2
         IN IF mid * mid <= n THEN IsqrtIn(n, mid, hi) ELSE IsqrtIn(n, lo, mid - 1)

Isqrt(n) == IsqrtIn(n, 0, 46340)

\* torch.tensor(outputs).std(): the unbiased estimate, dividing by N - 1, which
\* is NaN for a single element
TensorStd(outputs) ==
    LET n == Len(outputs)
        ss == n * SumOf([i \in 1..n |-> outputs[i] * outputs[i]])
                  - SumOf(outputs) * SumOf(outputs)
    IN IF n = 1 THEN [nan |-> TRUE, v |-> 0]
       ELSE [nan |-> FALSE, v |-> Isqrt((1000000 * ss) \div (n * (n - 1)))]

\* certainty = 1.0 / (1.0 + std_dev * 100); NaN stays NaN
CertaintyOf(outputs) ==
    LET std_dev == TensorStd(outputs)
    IN IF std_dev.nan THEN [nan |-> TRUE, v |-> 0]
       ELSE [nan |-> FALSE, v |-> (10000 * 100000) \div (100000 + std_dev.v)]

InitCert ==
    /\ raw_data = <<>>
    /\ sequence_length = RunnerSeqLen
    /\ sortKind = "stable"
    /\ weights = "missing"
    /\ ready = FALSE
    /\ fcDelta = 0
    /\ proc = <<>>
    /\ procRuns = 0
    /\ ml_results = <<>>
    /\ events = <<>>
    /\ prev = <<>>
    /\ config = NoConfig
    /\ decisions = <<>>
    /\ mc_outputs = <<>>
    /\ certainty = <<>>
    /\ InitModelIdle
    /\ InitFileIdle
    /\ InitClientIdle

\* model.train() at the head of calculate_uncertainty; nothing puts the mode back
TrainingAfterEstimate(mode) == TRUE

\* calculate_uncertainty(model, x, num_samples): num_samples forward passes with
\* dropout, then the certainty of their outputs
CalculateUncertainty ==
    /\ certainty = <<>>
    /\ \E num_samples \in 1..MaxSamples :
          \E outputs \in [1..num_samples -> OutputValues] :
              /\ mc_outputs' = outputs
              /\ certainty' = <<CertaintyOf(outputs)>>
    /\ training' = TrainingAfterEstimate(training)
    /\ UNCHANGED <<raw_data, sequence_length, sortKind, weights, ready, fcDelta, proc,
                   procRuns, ml_results, events, prev, config, decisions,
                   forward, init_pc, cdms_response, LoggedIn, session, fetched,
                   events_json>>

\* what model(x) gives for the sequence with dropout off
EvalOutput == 2

\* the caller's model(x) under torch.no_grad(): the deterministic output in eval
\* mode, any output dropout may give in train mode
ModelCall ==
    /\ Len(forward) < MaxForward
    /\ \E v \in (IF training THEN OutputValues ELSE {EvalOutput}) :
          forward' = Append(forward, [training |-> training, value |-> v])
    /\ UNCHANGED <<raw_data, sequence_length, sortKind, weights, ready, fcDelta, proc,
                   procRuns, ml_results, events, prev, config, decisions, mc_outputs,
                   certainty, training, init_pc, cdms_response, LoggedIn, session,
                   fetched, events_json>>

NextCert == CalculateUncertainty \/ ModelCall

SpecCert == InitCert /\ [][NextCert]_vars

-----------------------------------------------------------------------------
(* The served path: operations on the batch the caller holds *)

SeqLens == (1..MaxSeqLen) \cup {RunnerSeqLen}

Orderings(n) == {f \in [1..n -> 1..n] : \A i, j \in 1..n : f[i] = f[j] => i = j}

\* the runner is constructed over some weights file, the inference run and the
\* certainty estimate have not started
InitRunner ==
    /\ weights \in WeightFiles
    /\ ready = RunnerInit(weights).ready
    /\ fcDelta \in (IF ready THEN Deltas ELSE {0})
    /\ proc = <<>>
    /\ procRuns = 0
    /\ ml_results = <<>>
    /\ events = <<>>
    /\ prev = <<>>
    /\ config = NoConfig
    /\ decisions = <<>>
    /\ mc_outputs = <<>>
    /\ certainty = <<>>
    /\ InitModelIdle
    /\ InitClientIdle

Init ==
    /\ raw_data \in Batches(Pool, MaxBatch)
    /\ sequence_length = RunnerSeqLen
    /\ sortKind \in {"stable", "reversed"}
    /\ InitRunner
    /\ InitFileIdle

\* a direct call of TimeSeriesPreprocessor.process on the list
Process ==
    /\ procRuns < 2
    /\ proc' = <<ProcessResult(raw_data, sequence_length, sortKind)>>
    /\ procRuns' = procRuns + 1
    /\ raw_data' = RawAfterProcess(raw_data)
    /\ UNCHANGED <<sequence_length, sortKind, weights, ready, fcDelta, ml_results, events,
                   prev, config, decisions, mc_outputs, certainty,
                   training, forward, init_pc, cdms_response, LoggedIn, session, fetched,
                   events_json>>

\* lines 200-212: events_list is dumped to the file; a run that returned None
\* or raised before has not opened it
\* if not raw_data: return None
FetchStops(fetch) == fetch.ret = "none" \/ Len(fetch.data) = 0

\* the local ml_results of process_and_export: unassigned when the function
\* returns before the predict call, else <<the mapping predict returned>>
MlResultsOf(raw, isReady, delta, kind) ==
    IF FetchStops([ret |-> "data", data |-> raw]) THEN <<>>
    ELSE <<PredictResult(raw, isReady, delta, kind)>>

\* the mapping the loops of process_and_export look forecasts up in
MappingOf(ml) == IF ml = <<>> THEN <<>> ELSE ml[1]

FileAfterExport(file, outcome) ==
    IF outcome.ret = "ok" THEN [state |-> "complete", content |-> outcome.events]
    ELSE file

\* process_and_export on the fetched list: ml_runner.predict(raw_data), the two
\* loops, the export
ProcessAndExport ==
    /\ events = <<>>
    /\ ml_results' = MlResultsOf(raw_data, ready, fcDelta, sortKind)
    /\ ready' = ReadyAfterPredict(raw_data, ready, sortKind)
    /\ events' = <<ExportOutcome(raw_data, MappingOf(ml_results'))>>
    /\ events_json' = FileAfterExport(events_json, events'[1])
    /\ UNCHANGED <<raw_data, sequence_length, sortKind, weights, fcDelta, proc, procRuns,
                   prev, config, decisions, mc_outputs, certainty,
                   training, forward, init_pc, cdms_response, LoggedIn, session, fetched>>

\* the outputs obtained so far are kept aside and the operations start over on
\* the list next
StartOver(next) ==
    /\ proc # <<>>
    /\ events # <<>>
    /\ raw_data' = next
    /\ prev' = <<[raw |-> raw_data, proc |-> proc[1], events |-> events[1],
                  ml |-> MappingOf(ml_results)]>>
    /\ proc' = <<>>
    /\ procRuns' = 0
    /\ ml_results' = <<>>
    /\ events' = <<>>
    /\ UNCHANGED <<sequence_length, sortKind, weights, ready, fcDelta, config, decisions,
                   mc_outputs, certainty,
                   training, forward, init_pc, cdms_response, LoggedIn, session, fetched,
                   events_json>>

\* the same reports arrive in another order
Reorder ==
    \E f \in Orderings(Len(raw_data)) :
        /\ prev = <<>>
        /\ \E i \in 1..Len(raw_data) : f[i] # i
        /\ StartOver([i \in 1..Len(raw_data) |-> raw_data[f[i]]])

Next == Process \/ ProcessAndExport \/ Reorder

Spec == Init /\ [][Next]_vars

\* the sequencing specification: one preprocessor of any sequence length fed the
\* history of one pair
InitSeq ==
    /\ raw_data \in Batches(HistPool, MaxHist)
    /\ sequence_length \in SeqLens
    /\ sortKind \in {"stable", "reversed"}
    /\ weights = "missing"
    /\ InitRunner
    /\ InitFileIdle

\* the sequences cut down to their first width features
Narrowed(X, width) ==
    [b \in 1..Len(X) |-> [r \in 1..Len(X[b]) |-> SubSeq(X[b][r], 1, width)]]

\* the deltas the linear head of the directly called model may output
HeadDeltas == {-150, 0}

\* a direct call model(X) of a CollisionRiskSkipLSTM on the sequences the
\* preprocessor returned, as they are or with a feature cut off
ModelForward ==
    /\ proc # <<>>
    /\ Len(proc[1].out) > 0
    /\ forward = <<>>
    /\ \E width \in {2, 3} :
          \E deltas \in [1..Len(proc[1].out) -> HeadDeltas] :
              LET X == Narrowed([g \in 1..Len(proc[1].out) |-> proc[1].out[g].seq], width)
              IN forward' = <<[X |-> X, deltas |-> deltas,
                              outcome |-> ForwardOutcome(X, deltas)]>>
    /\ UNCHANGED <<raw_data, sequence_length, sortKind, weights, ready, fcDelta, proc,
                   procRuns, ml_results, events, prev, config, decisions, mc_outputs,
                   certainty, training, init_pc, cdms_response, LoggedIn, session,
                   fetched, events_json>>

NextSeq == Process \/ ModelForward

SpecSeq == InitSeq /\ [][NextSeq]_vars

\* the error-handling specification: batches with malformed reports, and a next
\* fetch that brings a batch of well-formed reports or another malformed one
InitErr ==
    /\ raw_data \in Batches(ErrPool, MaxErrBatch)
    /\ sequence_length = RunnerSeqLen
    /\ sortKind \in {"stable", "reversed"}
    /\ InitRunner
    /\ InitFileIdle

\* the next poll: fetch_cdms returns another list
Refetch ==
    \E next \in NextBatches :
        /\ prev = <<>>
        /\ StartOver(next)

NextErr == Process \/ ProcessAndExport \/ Refetch

SpecErr == InitErr /\ [][NextErr]_vars

\* the API specification (backend/api.py): a /init request, which runs
\* process_and_export, and a /cdms request, each in its own thread of the server

\* events.json as an earlier /init request left it
PrevFile ==
    [state |-> "complete",
     content |-> ExportOutcome(<<Report(<<"7">>, <<"9">>, Tca1, Update(<<"1">>), "PAYLOAD")>>,
                               <<>>).events]

InitApi ==
    /\ raw_data \in Batches(GoodReports, MaxBatch)
    /\ sequence_length = RunnerSeqLen
    /\ sortKind = "stable"
    /\ InitRunner
    /\ events_json \in {NoFile, PrevFile}
    /\ init_pc = <<>>
    /\ cdms_response = <<>>

\* /init, process_and_export up to open(output_file, 'w'): the forecasts and the
\* two loops, then the file is truncated; a run that returns None or raises
\* ends here and leaves the file alone
SatilateIdsOpen ==
    /\ events = <<>>
    /\ init_pc = <<>>
    /\ ml_results' = MlResultsOf(raw_data, ready, fcDelta, sortKind)
    /\ ready' = ReadyAfterPredict(raw_data, ready, sortKind)
    /\ LET outcome == ExportOutcome(raw_data, MappingOf(ml_results'))
       IN IF outcome.ret = "ok"
          THEN /\ init_pc' = <<outcome.events>>
               /\ events_json' = [state |-> "empty", content |-> <<>>]
               /\ events' = events
          ELSE /\ events' = <<outcome>>
               /\ UNCHANGED <<init_pc, events_json>>
    /\ UNCHANGED <<raw_data, sequence_length, sortKind, weights, fcDelta, proc, procRuns,
                   prev, config, decisions, mc_outputs, certainty, training, forward,
                   cdms_response, LoggedIn, session, fetched>>

\* json.dump writes the text piece by piece: the buffer is flushed to the file
\* while the dump of a large list is under way
SatilateIdsFlush ==
    /\ init_pc # <<>>
    /\ events_json.state = "empty"
    /\ events_json' = [state |-> "partial", content |-> init_pc[1]]
    /\ UNCHANGED <<raw_data, sequence_length, sortKind, weights, ready, fcDelta, proc,
                   procRuns, ml_results, events, prev, config, decisions, mc_outputs,
                   certainty, training, forward, init_pc, cdms_response, LoggedIn,
                   session, fetched>>

\* the with block ends: the file holds the whole text and process_and_export
\* returns events_list
SatilateIdsClose ==
    /\ init_pc # <<>>
    /\ events_json' = [state |-> "complete", content |-> init_pc[1]]
    /\ events' = <<[ret |-> "ok", events |-> init_pc[1]]>>
    /\ init_pc' = <<>>
    /\ UNCHANGED <<raw_data, sequence_length, sortKind, weights, ready, fcDelta, proc,
                   procRuns, ml_results, prev, config, decisions, mc_outputs, certainty,
                   training, forward, cdms_response, LoggedIn, session, fetched>>

\* the SAT_2_OBJS of the last entry whose SAT_1 ID is sat_id, [] when none is
CdmsBody(content, sat_id) ==
    LET hits == {k \in 1..Len(content) : content[k].SAT_1.ID = sat_id}
    IN IF hits = {} THEN <<>> ELSE content[SetMax(hits)].SAT_2_OBJS

\* /cdms?sat_id=...: open, json.load, the scan for the id; a missing file is
\* answered 404, a text that is no JSON document 500
CdmsResponse(file, sat_id) ==
    IF file.state = "absent" THEN [status |-> 404, body |-> <<>>, read |-> file]
    ELSE IF file.state = "complete"
         THEN [status |-> 200, body |-> CdmsBody(file.content, sat_id), read |-> file]
    ELSE [status |-> 500, body |-> <<>>, read |-> file]

Cdms ==
    /\ cdms_response = <<>>
    /\ \E sat_id \in {7, 5} : cdms_response' = <<CdmsResponse(events_json, sat_id)>>
    /\ UNCHANGED <<raw_data, sequence_length, sortKind, weights, ready, fcDelta, proc,
                   procRuns, ml_results, events, prev, config, decisions, mc_outputs,
                   certainty, training, forward, init_pc, LoggedIn, session, fetched,
                   events_json>>

NextApi == SatilateIdsOpen \/ SatilateIdsFlush \/ SatilateIdsClose \/ Cdms

SpecApi == InitApi /\ [][NextApi]_vars

-----------------------------------------------------------------------------
(* Acquisition: SpaceTrackClient.login and fetch_cdms, and process_and_export *)
(* from the construction of its client on.                                    *)

\* what the login request may come to: a response with a status code, or an
\* exception of the session
LoginResponses ==
    {[raised |-> FALSE, status |-> 200], [raised |-> FALSE, status |-> 401],
     [raised |-> TRUE, status |-> 0]}

\* the lists a successful query may return
FetchLists == Batches(GoodReports, 1)

\* what the data query may come to: a response (200 with a list, 500), or an
\* exception of the session or of response.json()
QueryResponses ==
    {[raised |-> FALSE, status |-> 200, data |-> d] : d \in FetchLists}
        \cup {[raised |-> FALSE, status |-> 500, data |-> <<>>],
              [raised |-> TRUE, status |-> 0, data |-> <<>>]}

\* SpaceTrackClient.login: the request sent, LoggedIn after it, and the return
Login(loggedIn, response) ==
    LET ok == ~response.raised /\ response.status = 200
    IN [sent |-> <<[req |-> "login", LoggedIn |-> loggedIn]>>,
        LoggedIn |-> (loggedIn \/ ok),
        ret |-> ok]

\* the mutant of FetchCdmsResult: the query is sent whatever login returned
FetchCdmsUnchecked(loggedIn, login, query) ==
    LET l == IF loggedIn THEN [sent |-> <<>>, LoggedIn |-> TRUE, ret |-> TRUE]
             ELSE Login(loggedIn, login)
    IN [sent |-> l.sent \o <<[req |-> "query", LoggedIn |-> l.LoggedIn]>>,
        LoggedIn |-> l.LoggedIn,
        ret |-> IF ~query.raised /\ query.status = 200
                THEN [ret |-> "data", data |-> query.data]
                ELSE [ret |-> "none", data |-> <<>>]]

\* SpaceTrackClient.fetch_cdms on a client whose flag is loggedIn: the requests
\* sent, each with the flag at the time it is sent, LoggedIn after the call and
\* the return (None, or the decoded list)
FetchCdmsResult(loggedIn, login, query) ==
    LET l == IF loggedIn THEN [sent |-> <<>>, LoggedIn |-> TRUE, ret |-> TRUE]
             ELSE Login(loggedIn, login)
    IN IF ~l.ret
       THEN [sent |-> l.sent, LoggedIn |-> l.LoggedIn,
             ret |-> [ret |-> "none", data |-> <<>>]]
       ELSE [sent |-> l.sent \o <<[req |-> "query", LoggedIn |-> l.LoggedIn]>>,
             LoggedIn |-> l.LoggedIn,
             ret |-> IF ~query.raised /\ query.status = 200
                     THEN [ret |-> "data", data |-> query.data]
                     ELSE [ret |-> "none", data |-> <<>>]]

InitFetch ==
    /\ raw_data = <<>>
    /\ sequence_length = RunnerSeqLen
    /\ sortKind = "stable"
    /\ InitRunner
    /\ events_json \in {NoFile, PrevFile}
    /\ init_pc = <<>>
    /\ cdms_response = <<>>

\* client.fetch_cdms() on the client the module keeps
FetchCdms ==
    \E login \in LoginResponses, query \in QueryResponses :
        LET r == FetchCdmsResult(LoggedIn, login, query)
        IN /\ Len(session) < MaxRequests
           /\ LoggedIn' = r.LoggedIn
           /\ session' = session \o r.sent
           /\ fetched' = <<[by |-> "fetch_cdms", ret |-> r.ret.ret, data |-> r.ret.data]>>
           /\ UNCHANGED <<raw_data, sequence_length, sortKind, weights, ready, fcDelta,
                          proc, procRuns, ml_results, events, prev, config, decisions,
                          mc_outputs, certainty, training, forward, events_json,
                          init_pc, cdms_response>>

\* process_and_export, whole: a client of its own, the fetch, and for a list
\* that is not empty the forecasts, the two loops and the export
FetchAndExport ==
    \E login \in LoginResponses, query \in QueryResponses :
        LET r == FetchCdmsResult(FALSE, login, query)
        IN /\ Len(session) < MaxRequests
           /\ session' = session \o r.sent
           /\ fetched' = <<[by |-> "process_and_export", ret |-> r.ret.ret,
                            data |-> r.ret.data]>>
           /\ raw_data' = r.ret.data
           /\ IF FetchStops(r.ret)
              THEN /\ ml_results' = <<>>
                   /\ events' = <<[ret |-> "none", events |-> <<>>]>>
                   /\ UNCHANGED <<ready, events_json>>
              ELSE /\ ml_results' = MlResultsOf(raw_data', ready, fcDelta, sortKind)
                   /\ ready' = ReadyAfterPredict(raw_data', ready, sortKind)
                   /\ events' = <<ExportOutcome(raw_data', MappingOf(ml_results'))>>
                   /\ events_json' = FileAfterExport(events_json, events'[1])
           /\ UNCHANGED <<sequence_length, sortKind, weights, fcDelta, proc, procRuns,
                          prev, config, decisions, mc_outputs, certainty, training,
                          forward, init_pc, cdms_response, LoggedIn>>

NextFetch == FetchCdms \/ FetchAndExport

SpecFetch == InitFetch /\ [][NextFetch]_vars


-----------------------------------------------------------------------------
(* Properties *)

\* the events of the last process call, <<>> when none was made or it raised
ProcOut == IF proc = <<>> THEN <<>> ELSE proc[1].out

\* the cleaned frame of the list the caller holds
RawFrame == CleanDataframe(raw_data)

\* the feature row of report i of the list
FeatureRow(i) == ExtractFeatures(RawFrame, <<i>>)[1]

\* the reports of event ev, by their place in the list
Members(ev) == {ev.history[k].index : k \in 1..Len(ev.history)}

\* C3: every sequence process returns has exactly sequence_length rows of 3
\* features, whatever the length of the event's history
SequenceShape ==
    \A g \in 1..Len(ProcOut) :
        /\ Len(ProcOut[g].seq) = sequence_length
        /\ \A r \in 1..Len(ProcOut[g].seq) : Len(ProcOut[g].seq[r]) = 3

\* a history of one report under the served length, shape (5, 3), next to a
\* longer history in the same batch
SequenceShapeWitness ==
    /\ \E g \in 1..Len(ProcOut) :
          Len(ProcOut[g].history) = 1 /\ sequence_length = RunnerSeqLen
             /\ Len(ProcOut[g].seq) = 5
    /\ \E g \in 1..Len(ProcOut) : Len(ProcOut[g].history) > 1

\* the history of ev lists every report of its group once, oldest first
Chronological(ev) ==
    /\ \A k \in 1..Len(ev.history) :
          ev.history[k].CREATED = raw_data[ev.history[k].index].CREATED.sec
    /\ \A k, l \in 1..Len(ev.history) : k < l => ev.history[k].index # ev.history[l].index
    /\ \A k, l \in 1..Len(ev.history) : k < l => ev.history[k].CREATED <= ev.history[l].CREATED
    /\ \A i \in 1..Len(raw_data) :
          i \in Members(ev) <=>
              /\ ~RawFrame[i].SAT_1_ID.nan /\ ~RawFrame[i].SAT_2_ID.nan
              /\ RawFrame[i].SAT_1_ID.v = ev.meta.SAT_1_ID
              /\ RawFrame[i].SAT_2_ID.v = ev.meta.SAT_2_ID
              /\ IsoText(FloorMin(raw_data[i].TCA).sec) = ev.meta.TCA

\* C4: an event with n < L reports has L - n all-zero rows followed by the n
\* feature rows of its reports in ascending CREATED order, the last row being the
\* row of a latest report
LeftPadding ==
    \A g \in 1..Len(ProcOut) :
        LET ev == ProcOut[g]
            n == Len(ev.history)
            L == sequence_length
        IN n < L =>
              /\ Chronological(ev)
              /\ Len(ev.seq) = L
              /\ \A r \in 1..(L - n) : ev.seq[r] = ZeroRow
              /\ \A k \in 1..n : ev.seq[L - n + k] = FeatureRow(ev.history[k].index)
              /\ \E i \in Members(ev) :
                    /\ \A j \in Members(ev) : RawFrame[j].CREATED <= RawFrame[i].CREATED
                    /\ ev.seq[L] = FeatureRow(i)

\* two reports under L = 5: three zero rows, then the two real rows
LeftPaddingWitness ==
    \E g \in 1..Len(ProcOut) :
        /\ sequence_length = RunnerSeqLen
        /\ Len(ProcOut[g].history) = 2
        /\ \A r \in 1..3 : ProcOut[g].seq[r] = ZeroRow
        /\ ProcOut[g].seq[4] # ZeroRow /\ ProcOut[g].seq[5] # ZeroRow
        /\ ProcOut[g].seq[4] # ProcOut[g].seq[5]

\* C5: an event with n >= L reports has the feature rows of the L reports with
\* the greatest CREATED times, in ascending CREATED order, and no padding row
Truncation ==
    \A g \in 1..Len(ProcOut) :
        LET ev == ProcOut[g]
            n == Len(ev.history)
            L == sequence_length
        IN n >= L =>
              /\ Chronological(ev)
              /\ Len(ev.seq) = L
              /\ \A k \in 1..L : ev.seq[k] = FeatureRow(ev.history[n - L + k].index)
              /\ \A k \in 1..(n - L), l \in (n - L + 1)..n :
                    ev.history[k].CREATED <= ev.history[l].CREATED

\* three reports of one event, created at two different times, cut to two rows
TruncationWitness ==
    \E g \in 1..Len(ProcOut) :
        /\ sequence_length = 2
        /\ Len(ProcOut[g].history) = 3
        /\ ProcOut[g].history[1].CREATED < ProcOut[g].history[3].CREATED
        /\ ProcOut[g].seq[1] # ProcOut[g].seq[2]

\* C7: the status of a decision record is RED if f >= high, else RED if the miss
\* distance is known and below the critical distance, else YELLOW if f >= medium,
\* else GREEN; an unknown miss distance never triggers the proximity rule
StatusPriority ==
    \A k \in 1..Len(decisions) :
        LET f == decisions[k].record.Predicted_PC
            d == decisions[k].meta.LATEST_MIN_RNG
            known == d.kind = "num"
            status == decisions[k].record.Risk_Status
        IN /\ status \in {"RED", "YELLOW", "GREEN"}
           /\ f >= config.high_risk => status = "RED"
           /\ (f < config.high_risk /\ known /\ d.v < config.miss_distance_critical)
                 => status = "RED"
           /\ (f < config.high_risk /\ ~(known /\ d.v < config.miss_distance_critical)
                  /\ f >= config.medium_risk) => status = "YELLOW"
           /\ (f < config.high_risk /\ ~(known /\ d.v < config.miss_distance_critical)
                  /\ f < config.medium_risk) => status = "GREEN"
           /\ (~known /\ f < config.high_risk) => status # "RED"

\* a forecast between the two thresholds with a miss distance of 30 m below the
\* critical 1000 m: RED by proximity, not YELLOW
StatusPriorityWitness ==
    \E k \in 1..Len(decisions) :
        /\ config.high_risk = -400000 /\ config.medium_risk = -500000
        /\ config.miss_distance_critical = 1000
        /\ decisions[k].record.Predicted_PC = -450000
        /\ decisions[k].meta.LATEST_MIN_RNG = [kind |-> "num", v |-> 30]
        /\ decisions[k].record.Risk_Status = "RED"


\* the events the runner's own preprocessor makes of the list
RunnerOut == ProcessResult(raw_data, RunnerSeqLen, sortKind).out

\* a report process puts into a group: both ids numeric
Grouped(i) == ~RawFrame[i].SAT_1_ID.nan /\ ~RawFrame[i].SAT_2_ID.nan

\* "{SAT_1_ID}_{SAT_2_ID}_{floored TCA in ISO-8601}" of report i, the ids as numbers
ReportKey(i) ==
    IntText(RawFrame[i].SAT_1_ID.v) \o <<"_">> \o IntText(RawFrame[i].SAT_2_ID.v)
        \o <<"_">> \o IsoText(FloorMin(raw_data[i].TCA).sec)

\* C1: two reports are in the same event exactly when they have the same
\* SAT_1_ID, the same SAT_2_ID and TCAs in the same minute, and the event key is
\* "{SAT_1_ID}_{SAT_2_ID}_{floored TCA}" whatever else the report or the batch holds
GroupingIdentity ==
    /\ \A i, j \in 1..Len(raw_data) :
          (Grouped(i) /\ Grouped(j)) =>
              ((\E g \in 1..Len(ProcOut) : {i, j} \subseteq Members(ProcOut[g]))
                  <=> (proc # <<>> /\ ReportKey(i) = ReportKey(j)))
    /\ \A g \in 1..Len(ProcOut) :
          \A i \in Members(ProcOut[g]) : ProcOut[g].meta.KEY = ReportKey(i)

\* the history of an event without the row labels of the frame
Rows(ev) ==
    [k \in 1..Len(ev.history) |->
        [CREATED |-> ev.history[k].CREATED, PC |-> ev.history[k].PC,
         MIN_RNG |-> ev.history[k].MIN_RNG]]

\* what process says of each event: key, ordered history, sequence, metadata
EventViews(p) ==
    { [rows |-> Rows(p.out[g]), seq |-> p.out[g].seq, target |-> p.out[g].target,
       meta |-> p.out[g].meta] : g \in 1..Len(p.out) }

\* what process_and_export says of each encounter, with the primary it hangs under
EncounterViews(e) ==
    UNION { { [SAT_1 |-> e.events[k].SAT_1, encounter |-> e.events[k].SAT_2_OBJS[m]] :
                m \in 1..Len(e.events[k].SAT_2_OBJS) } : k \in 1..Len(e.events) }

\* C2: a permutation of the batch gives the same events, with the same members,
\* ordered history, sequence and output fields, from process and from
\* process_and_export
PermutationInvariance ==
    prev # <<>> =>
        /\ proc # <<>> => EventViews(proc[1]) = EventViews(prev[1].proc)
        /\ events # <<>> =>
              /\ events[1].ret = prev[1].events.ret
              /\ EncounterViews(events[1]) = EncounterViews(prev[1].events)

ProximityOverride ==
    ml_results # <<>> =>
        \A g \in 1..Len(RunnerOut) :
            LET meta == RunnerOut[g].meta
            IN (meta.KEY \in DOMAIN ml_results[1]
                   /\ ~meta.LATEST_MIN_RNG.nan /\ meta.LATEST_MIN_RNG.v < 1000)
                  => ml_results[1][meta.KEY].AI_STATUS = "RED"

\* the encounters of the last export
Encounters ==
    IF events = <<>> THEN {} ELSE {v.encounter : v \in EncounterViews(events[1])}

\* C9: an exported encounter is GRAY exactly when ml_results has no forecast
\* under its key, and then AI_RISK_LOG10 is None; without forecast it is never
\* GREEN, with a forecast never GRAY
GrayMeansNoForecast ==
    \A enc \in Encounters :
        /\ enc.AI_STATUS = "GRAY" <=> enc.encounter_key \notin DOMAIN ml_results[1]
        /\ enc.AI_STATUS = "GRAY" => enc.AI_RISK_LOG10 = None
        /\ enc.encounter_key \notin DOMAIN ml_results[1] => enc.AI_STATUS # "GREEN"
        /\ enc.encounter_key \in DOMAIN ml_results[1] =>
              /\ enc.AI_STATUS = ml_results[1][enc.encounter_key].AI_STATUS
              /\ enc.AI_RISK_LOG10 = Some(ml_results[1][enc.encounter_key].AI_RISK_LOG10)

\* a ready runner, one encounter with a GREEN forecast and one without any
GrayMeansNoForecastWitness ==
    /\ ready
    /\ \E enc \in Encounters : enc.AI_STATUS = "GRAY" /\ enc.AI_RISK_LOG10 = None
    /\ \E enc \in Encounters : enc.AI_STATUS = "GREEN"

\* a report process_and_export accepts: the fields present, a PAYLOAD primary
Accepted(i) ==
    /\ Truthy(raw_data[i].SAT_1_ID) /\ Truthy(raw_data[i].SAT_2_ID)
    /\ raw_data[i].TCA.form # "none"
    /\ raw_data[i].SAT1_OBJECT_TYPE = "PAYLOAD"

\* C10: the encounter_key of every accepted report is the KEY process gives the
\* group holding the report, so a forecast made for its event reaches the encounter
KeyAgreement ==
    (events # <<>> /\ events[1].ret = "ok") =>
        \A i \in 1..Len(raw_data) :
            Accepted(i) =>
                \A g \in 1..Len(RunnerOut) :
                    i \in Members(RunnerOut[g]) =>
                        /\ EncounterKey(raw_data[i]) = RunnerOut[g].meta.KEY
                        /\ ready => \E enc \in Encounters :
                              /\ enc.encounter_key = EncounterKey(raw_data[i])
                              /\ enc.AI_STATUS # "GRAY"

-----------------------------------------------------------------------------
(* Error handling on the served path *)

\* the list without its i-th report
Without(raw, i) == [k \in 1..(Len(raw) - 1) |-> IF k < i THEN raw[k] ELSE raw[k + 1]]

\* a report with a required field missing (every report of the model has CREATED)
Malformed(r) == r.SAT_1_ID = <<>> \/ r.SAT_2_ID = <<>> \/ r.TCA.form = "none"

\* two mappings predict may return hold the same forecasts
SameForecasts(a, b) == DOMAIN a = DOMAIN b /\ \A k \in DOMAIN a : a[k] = b[k]

\* what process_and_export makes of the list raw on this runner
ExportOf(raw) == ExportOutcome(raw, PredictResult(raw, ready, fcDelta, sortKind))

\* C11: a report missing SAT_1_ID, SAT_2_ID or TCA is dropped, and the events,
\* sequences, forecasts and encounters of the other reports are those the batch
\* without the report gives
MalformedIsLocal ==
    \A i \in 1..Len(raw_data) :
        Malformed(raw_data[i]) =>
            LET rest == Without(raw_data, i)
            IN /\ proc # <<>> =>
                     EventViews(proc[1])
                         = EventViews(ProcessResult(rest, sequence_length, sortKind))
               /\ events # <<>> =>
                     /\ SameForecasts(ml_results[1],
                                      PredictResult(rest, ready, fcDelta, sortKind))
                     /\ EncounterViews(events[1]) = EncounterViews(ExportOf(rest))

\* the encounters of an export that are not keyed by a raw TCA string
ParsedEncounters(e) ==
    {v \in EncounterViews(e) :
        v.encounter.encounter_key[Len(v.encounter.encounter_key)] # "TBD"}

\* C12: a report whose TCA cannot be parsed is kept, under a key whose third
\* component is the raw TCA string, and the grouping and forecasting of the
\* other events are those the batch without the report gives
UnparsableTcaFallback ==
    \A i \in 1..Len(raw_data) :
        (raw_data[i].TCA.form = "text" /\ Accepted(i)) =>
            LET rest == Without(raw_data, i)
            IN /\ events # <<>> =>
                     /\ \E enc \in Encounters :
                           /\ enc.encounter_key
                                 = raw_data[i].SAT_1_ID \o <<"_">> \o raw_data[i].SAT_2_ID
                                       \o <<"_", "TBD">>
                           /\ \E k \in 1..Len(enc.CDMS) :
                                 enc.CDMS[k].CDM_ID = raw_data[i].CDM_ID
                     /\ ParsedEncounters(events[1]) = ParsedEncounters(ExportOf(rest))
               /\ proc # <<>> =>
                     EventViews(ProcessResult(rest, sequence_length, sortKind))
                         \subseteq EventViews(proc[1])

\* the PC or the MIN_RNG of report r is absent, empty or no number
PcInvalid(r) == ToNumericDecimal(r.PC).nan

MinRngInvalid(r) == ToNumeric(r.MIN_RNG).nan

\* the list with valid numbers put where report i has none
Repaired(raw, i) ==
    [raw EXCEPT ![i].PC = IF PcInvalid(raw[i]) THEN Update(<<"1">>).PC ELSE @,
                ![i].MIN_RNG = IF MinRngInvalid(raw[i]) THEN Update(<<"1">>).MIN_RNG ELSE @,
                ![i].absent = {}]

\* the encounters of an export other than the one report i of raw_data belongs to
OtherEncounters(e, i) ==
    {v \in EncounterViews(e) : v.encounter.encounter_key # EncounterKey(raw_data[i])}

\* C13: a report whose PC or MIN_RNG is absent, empty or no number aborts
\* nothing: its feature row has log10(1e-30) = -30 for the PC and log1p(1e5) for
\* the miss distance, its exported CDM has PC 0.0 and MIN_RNG None, and every
\* other event and encounter is what it is when the report has valid numbers
CoercionIsNonFatal ==
    \A i \in 1..Len(raw_data) :
        (PcInvalid(raw_data[i]) \/ MinRngInvalid(raw_data[i])) =>
            LET fixed == Repaired(raw_data, i)
                pf == ProcessResult(fixed, sequence_length, sortKind)
            IN /\ proc # <<>> =>
                     /\ proc[1].raised => pf.raised
                     /\ ~proc[1].raised =>
                           /\ Len(ProcOut) = Len(pf.out)
                           /\ \A g \in 1..Len(ProcOut) :
                                 IF i \in Members(ProcOut[g])
                                 THEN /\ PcInvalid(raw_data[i]) => FeatureRow(i)[1] = -3000
                                      /\ MinRngInvalid(raw_data[i]) => FeatureRow(i)[2] = 1151
                                      /\ \E k \in 1..Len(ProcOut[g].seq) :
                                            ProcOut[g].seq[k] = FeatureRow(i)
                                 ELSE ProcOut[g] = pf.out[g]
               /\ events # <<>> =>
                     /\ events[1].ret = ExportOf(fixed).ret
                     /\ OtherEncounters(events[1], i) = OtherEncounters(ExportOf(fixed), i)
                     /\ \A enc \in Encounters : \A k \in 1..Len(enc.CDMS) :
                           (enc.CDMS[k].CDM_ID = raw_data[i].CDM_ID
                               /\ enc.encounter_key = EncounterKey(raw_data[i])) =>
                                 /\ PcInvalid(raw_data[i]) => enc.CDMS[k].PC = 0
                                 /\ MinRngInvalid(raw_data[i]) => enc.CDMS[k].MIN_RNG = None

\* C14: over a missing or unloadable weights file the runner is constructed
\* without a raise and not ready, predict returns the empty mapping, and the
\* export still has the encounter of every accepted report, each of them GRAY
ModelUnavailable ==
    weights # "loadable" =>
        /\ ~RunnerInit(weights).raised
        /\ ~ready
        /\ ml_results # <<>> => DOMAIN ml_results[1] = {}
        /\ (events # <<>> /\ events[1].ret = "ok") =>
              /\ \A enc \in Encounters : enc.AI_STATUS = "GRAY" /\ enc.AI_RISK_LOG10 = None
              /\ \A i \in 1..Len(raw_data) :
                    Accepted(i) =>
                        \E enc \in Encounters :
                            /\ enc.encounter_key = EncounterKey(raw_data[i])
                            /\ \E k \in 1..Len(enc.CDMS) :
                                  enc.CDMS[k].CDM_ID = raw_data[i].CDM_ID

\* an export of two encounters over a weights file that does not load
ModelUnavailableWitness ==
    /\ weights = "corrupt"
    /\ events # <<>> /\ events[1].ret = "ok"
    /\ Cardinality(Encounters) = 2

\* a batch process turns into at least one event
ValidBatch(raw) ==
    Len(raw) > 0 /\ Len(ProcessResult(raw, RunnerSeqLen, sortKind).out) > 0

\* C15: an exception inside predict is caught: predict returns the empty mapping,
\* the export goes on, and the runner stays ready, so that a runner with loaded
\* weights gives forecasts for every valid batch, before and after a failure
InferenceFailureContained ==
    [][(events = <<>> /\ events' # <<>>) =>
          /\ ready' = ready
          /\ PredictRaises(raw_data, ready, sortKind) =>
                (DOMAIN ml_results'[1] = {} /\ events'[1].ret = "ok")
          /\ (weights = "loadable" /\ ValidBatch(raw_data)) =>
                DOMAIN ml_results'[1] # {}]_vars

\* a failed predict call followed by a call on a valid batch that gives forecasts
InferenceFailureContainedWitness ==
    /\ prev # <<>>
    /\ PredictRaises(prev[1].raw, TRUE, sortKind)
    /\ DOMAIN prev[1].ml = {}
    /\ ready
    /\ ml_results # <<>>
    /\ DOMAIN ml_results[1] # {}

-----------------------------------------------------------------------------
(* The decision record of inference *)

\* C16: when the latest reported probability is zero, the trend is INCREASING
\* for a positive forecast and STABLE otherwise, never DECREASING
TrendAtZero ==
    \A k \in 1..Len(decisions) :
        decisions[k].meta.LATEST_PC = 0 =>
            decisions[k].record.Risk_Trend =
                IF decisions[k].record.Predicted_PC > 0 THEN "INCREASING" ELSE "STABLE"

\* C17: for a latest reported probability p other than zero, the trend is
\* INCREASING when the forecast exceeds p by more than a tenth of p, DECREASING
\* when it falls short of p by more than a tenth of p, and STABLE in between
TrendAwayFromZero ==
    \A k \in 1..Len(decisions) :
        LET p == decisions[k].meta.LATEST_PC
            f == decisions[k].record.Predicted_PC
        IN p # 0 =>
              decisions[k].record.Risk_Trend =
                  IF 10 * (f - p) > p THEN "INCREASING"
                  ELSE IF 10 * (p - f) > p THEN "DECREASING"
                  ELSE "STABLE"

\* a latest probability of 0.00079 with forecasts inside the band, at 0.00086 and
\* at 0.00072, and just outside it, at 0.00087
TrendAwayFromZeroWitness ==
    /\ Len(decisions) = 2
    /\ decisions[2].meta.LATEST_PC = 79
    /\ decisions[2].record.Predicted_PC = 86
    /\ decisions[2].record.Risk_Trend = "STABLE"
    /\ decisions[1].meta.LATEST_PC = 78
    /\ decisions[1].record.Predicted_PC = 86
    /\ decisions[1].record.Risk_Trend = "INCREASING"

\* the report an event's record is read from: the latest one of the event
LatestReport(k) ==
    raw_data[decisions[k].meta.members[Len(decisions[k].meta.members)]]

\* C18: Hours_To_Decision is the TCA the reports state, less the reaction
\* window, less the creation time of the latest report, in hours to two
\* decimals: a report created 20 h before its TCA, with a window of 6 h, gives 14
HoursFromStatedTca ==
    \A k \in 1..Len(decisions) :
        decisions[k].record.Hours_To_Decision =
            RoundHours((LatestReport(k).TCA.sec - config.reaction_time_hours * SecondsPerHour)
                           - LatestReport(k).CREATED.sec)

\* the events the grouping of the file produces
GroupedEvents ==
    {PipelineGroupName(raw_data, i) : i \in PipelineGroupedRows(raw_data)}

\* every event of the grouping has exactly one record
OneRecordPerEvent ==
    decisions # <<>> =>
        /\ Len(decisions) = Cardinality(GroupedEvents)
        /\ \A e \in GroupedEvents :
              \E k \in 1..Len(decisions) :
                  <<decisions[k].record.SAT_1, decisions[k].record.SAT_2,
                    decisions[k].record.TCA>> = e

\* the seconds by which the time of last opportunity of record k lies before the
\* latest report of its event
OverdueBy(k) ==
    decisions[k].meta.LATEST_CREATED
        - (decisions[k].meta.TCA - config.reaction_time_hours * SecondsPerHour)

-----------------------------------------------------------------------------
(* The certainty estimate *)

\* the standard deviation of the outputs is zero
AllEqual(outputs) == \A i \in 1..Len(outputs) : outputs[i] = outputs[1]

\* C20: for every number of forward passes N >= 1 the certainty is a number in
\* (0, 1], it is 1 when all outputs are equal, and of two estimates over N
\* outputs the one with the larger standard deviation has the smaller certainty
CertaintyBounds ==
    certainty # <<>> =>
        /\ ~certainty[1].nan
        /\ 0 < certainty[1].v /\ certainty[1].v <= 10000
        /\ AllEqual(mc_outputs) => certainty[1].v = 10000
        /\ \A other \in [1..Len(mc_outputs) -> OutputValues] :
              (~TensorStd(other).nan /\ ~TensorStd(mc_outputs).nan
                 /\ TensorStd(other).v > TensorStd(mc_outputs).v)
                  => CertaintyOf(other).v < certainty[1].v

\* C21: the estimator leaves the model in the mode it found it in, and a
\* forecast made with dropout off has the same value before and after an
\* estimate on the same model
ForecasterStateless ==
    /\ training = FALSE
    /\ \A i \in 1..Len(forward) : forward[i].value = EvalOutput

-----------------------------------------------------------------------------
(* Events of one batch *)

\* the reports of raw in the event of its i-th report, in the order of the list
OwnReports(raw, i) ==
    LET SameEvent(r) ==
            /\ ToNumeric(r.SAT_1_ID) = ToNumeric(raw[i].SAT_1_ID)
            /\ ToNumeric(r.SAT_2_ID) = ToNumeric(raw[i].SAT_2_ID)
            /\ r.TCA.form = "iso"
            /\ FloorMin(r.TCA).sec = FloorMin(raw[i].TCA).sec
    IN SelectSeq(raw, SameEvent)

\* a report that belongs to an event: numeric ids and a TCA that parses
InEvent(r) ==
    ~ToNumeric(r.SAT_1_ID).nan /\ ~ToNumeric(r.SAT_2_ID).nan /\ r.TCA.form = "iso"

\* the events of the sequence out that hold the i-th report of the list
EventsHolding(out, i) ==
    LET Holds(ev) == i \in Members(ev)
    IN [raised |-> FALSE, out |-> SelectSeq(out, Holds)]

\* C22: what process and predict say of an event (key, history, sequence,
\* metadata, forecast, status) is what they say of the event's reports taken
\* alone, whatever other reports the batch holds
EventsIndependent ==
    \A i \in 1..Len(raw_data) :
        InEvent(raw_data[i]) =>
            LET own == OwnReports(raw_data, i)
                alone == ProcessResult(own, sequence_length, sortKind)
                forecast == PredictResult(own, ready, fcDelta, sortKind)
                keys == {ev.meta.KEY : ev \in
                            {RunnerOut[g] : g \in {h \in 1..Len(RunnerOut) :
                                                      i \in Members(RunnerOut[h])}}}
            IN /\ proc # <<>> =>
                     EventViews(EventsHolding(ProcOut, i)) = EventViews(alone)
               /\ events # <<>> =>
                     /\ DOMAIN forecast = keys \cap DOMAIN ml_results[1]
                     /\ \A k \in DOMAIN forecast : ml_results[1][k] = forecast[k]

\* C23: the history of every event process returns and the CDMS list of every
\* exported encounter are in ascending order of the reports' creation times,
\* whichever way the CREATED strings are written
HistoryChronological ==
    /\ \A g \in 1..Len(ProcOut) :
          \A k, l \in 1..Len(ProcOut[g].history) :
              k < l => ProcOut[g].history[k].CREATED <= ProcOut[g].history[l].CREATED
    /\ \A enc \in Encounters :
          \A k, l \in 1..Len(enc.CDMS) :
              k < l => enc.CDMS[k].CREATED.sec <= enc.CDMS[l].CREATED.sec

\* C24: LATEST_MIN_RNG, LATEST_PC and LATEST_CREATED of an event are those of one
\* report of the event, one with the greatest CREATED, whose feature row is the
\* last row of the sequence; TCA in the metadata is the minute-floored TCA of the
\* event's reports and KEY ends with it
LatestMetadata ==
    \A g \in 1..Len(ProcOut) :
        LET ev == ProcOut[g]
        IN /\ \E i \in Members(ev) :
                 /\ \A j \in Members(ev) : RawFrame[j].CREATED <= RawFrame[i].CREATED
                 /\ ev.meta.LATEST_MIN_RNG = RawFrame[i].MIN_RNG
                 /\ ev.meta.LATEST_PC = RawFrame[i].PC
                 /\ ev.meta.LATEST_CREATED = IsoText(RawFrame[i].CREATED)
                 /\ ev.seq[Len(ev.seq)] = FeatureRow(i)
           /\ \A i \in Members(ev) :
                 ev.meta.TCA = IsoText(FloorMin(raw_data[i].TCA).sec)
           /\ Len(ev.meta.KEY) > Len(ev.meta.TCA)
           /\ SubSeq(ev.meta.KEY, Len(ev.meta.KEY) - Len(ev.meta.TCA) + 1, Len(ev.meta.KEY))
                 = ev.meta.TCA

\* an event of two reports created at different times, with different miss
\* distances and a TCA that is not on the minute
LatestMetadataWitness ==
    \E g \in 1..Len(ProcOut) :
        /\ Len(ProcOut[g].history) = 2
        /\ ProcOut[g].history[1].CREATED < ProcOut[g].history[2].CREATED
        /\ ProcOut[g].history[1].MIN_RNG # ProcOut[g].history[2].MIN_RNG
        /\ ProcOut[g].meta.LATEST_MIN_RNG = [nan |-> FALSE, v |-> 30]
        /\ \A i \in Members(ProcOut[g]) : raw_data[i].TCA.sec % SecondsPerMinute # 0

-----------------------------------------------------------------------------
(* The forecaster *)

\* C25: for a batch of shape (B, L, 3) the output has shape (B, 1), and the
\* forecast of item b is delta_b plus the probability feature of the last row of
\* sequence b
ResidualForecast ==
    \A c \in 1..Len(forward) :
        LET X == forward[c].X
            out == forward[c].outcome.out
        IN (\A b \in 1..Len(X) : \A r \in 1..Len(X[b]) : Len(X[b][r]) = 3) =>
              /\ forward[c].outcome.raised = "none"
              /\ Len(out) = Len(X)
              /\ \A b \in 1..Len(X) :
                    /\ Len(out[b]) = 1
                    /\ out[b][1] = forward[c].deltas[b] + X[b][Len(X[b])][1]

\* a batch of two sequences of five rows, the first of them padded in front,
\* with different deltas
ResidualForecastWitness ==
    /\ forward # <<>>
    /\ forward[1].outcome.raised = "none"
    /\ Len(forward[1].X) = 2
    /\ Len(forward[1].X[1]) = 5
    /\ forward[1].X[1][1] = <<0, 0, 0>>
    /\ forward[1].X[1][5][1] # 0
    /\ forward[1].deltas[1] # forward[1].deltas[2]

\* C26: a forecaster call with a sequence whose length is not L = 5, or whose
\* rows do not have exactly 3 features, is rejected with an InputShapeError and
\* returns no forecast
WrongShapeRejected ==
    \A c \in 1..Len(forward) :
        (\E b \in 1..Len(forward[c].X) :
            \/ Len(forward[c].X[b]) # RunnerSeqLen
            \/ \E r \in 1..Len(forward[c].X[b]) : Len(forward[c].X[b][r]) # 3)
          => /\ forward[c].outcome.raised = "InputShapeError"
             /\ forward[c].outcome.out = <<>>

-----------------------------------------------------------------------------
(* The exported list *)

\* the places of the exported list: entry k, encounter m of it, item c of its CDMS
CdmSlots(e) ==
    {s \in (1..Len(e)) \X (1..Len(raw_data)) \X (1..Len(raw_data)) :
        /\ s[2] <= Len(e[s[1]].SAT_2_OBJS)
        /\ s[3] <= Len(e[s[1]].SAT_2_OBJS[s[2]].CDMS)}

\* C27: every report with SAT_1_ID, SAT_2_ID, TCA and CREATED and a PAYLOAD
\* primary is exported exactly once, in the CDMS of the encounter with its key,
\* and no other report is; MSG_COUNT is the length of CDMS and at least 1; each
\* encounter hangs under one entry, the only one whose SAT_1 ID is its primary's
ReportConservation ==
    events # <<>> =>
        LET e == events[1].events
            accepted == {i \in 1..Len(raw_data) : Accepted(i)}
        IN /\ accepted # {} => events[1].ret = "ok"
           /\ Cardinality(CdmSlots(e)) = Cardinality(accepted)
           /\ \A i \in accepted :
                 Cardinality({s \in CdmSlots(e) :
                     /\ e[s[1]].SAT_2_OBJS[s[2]].encounter_key = EncounterKey(raw_data[i])
                     /\ e[s[1]].SAT_2_OBJS[s[2]].CDMS[s[3]] = CdmItem(raw_data[i])})
                   = Cardinality({j \in accepted :
                         /\ EncounterKey(raw_data[j]) = EncounterKey(raw_data[i])
                         /\ CdmItem(raw_data[j]) = CdmItem(raw_data[i])})
           /\ \A k \in 1..Len(e) : \A m \in 1..Len(e[k].SAT_2_OBJS) :
                 /\ e[k].SAT_2_OBJS[m].MSG_COUNT = Len(e[k].SAT_2_OBJS[m].CDMS)
                 /\ e[k].SAT_2_OBJS[m].MSG_COUNT >= 1
                 /\ \A k2 \in 1..Len(e) : \A m2 \in 1..Len(e[k2].SAT_2_OBJS) :
                       e[k2].SAT_2_OBJS[m2].encounter_key = e[k].SAT_2_OBJS[m].encounter_key
                           => (k2 = k /\ m2 = m)
                 /\ \A k2 \in 1..Len(e) : e[k2].SAT_1.ID = e[k].SAT_1.ID => k2 = k
                 /\ \A i \in accepted :
                       EncounterKey(raw_data[i]) = e[k].SAT_2_OBJS[m].encounter_key
                           => e[k].SAT_1.ID = DigitsValue(raw_data[i].SAT_1_ID)

-----------------------------------------------------------------------------
(* The mapping predict returns *)

\* C28: distinct groups have distinct KEY strings, and the mapping a predict call
\* returns from the model has exactly one entry per group
OneResultPerEvent ==
    /\ \A g, h \in 1..Len(RunnerOut) :
          g # h => RunnerOut[g].meta.KEY # RunnerOut[h].meta.KEY
    /\ (ml_results # <<>> /\ ready /\ ~PredictRaises(raw_data, ready, sortKind)) =>
          /\ Cardinality(DOMAIN ml_results[1]) = Len(RunnerOut)
          /\ \A g \in 1..Len(RunnerOut) : RunnerOut[g].meta.KEY \in DOMAIN ml_results[1]

\* a forecast for each of two events of one primary in one TCA minute
OneResultPerEventWitness ==
    /\ events # <<>>
    /\ ready
    /\ Len(RunnerOut) = 2
    /\ RunnerOut[1].meta.SAT_1_ID = RunnerOut[2].meta.SAT_1_ID
    /\ RunnerOut[1].meta.TCA = RunnerOut[2].meta.TCA
    /\ Cardinality(DOMAIN ml_results[1]) = 2

-----------------------------------------------------------------------------
(* The exported file under concurrent requests *)

\* C29: a /cdms request that runs while a /init request rewrites events.json
\* reads a complete export, the previous one or the new one, never an empty or
\* partly written file
NoTornRead ==
    cdms_response # <<>> =>
        /\ cdms_response[1].read.state \in {"absent", "complete"}
        /\ cdms_response[1].status # 500

-----------------------------------------------------------------------------
(* Acquisition failure *)

\* C30: every data query is sent with LoggedIn true, the login request is sent
\* only with the flag false and the query follows it only with the flag set by
\* it (what follows a failed login is the login of the next call); and a run of
\* process_and_export whose login fails, whose query fails or whose list is
\* empty returns None with predict not called and data/events.json as it was
AcquisitionFailureStops ==
    /\ [](\A i \in 1..Len(session) : session[i].req = "query" => session[i].LoggedIn)
    /\ [](\A i \in 1..Len(session) :
              (session[i].req = "login" /\ i < Len(session)) =>
                  (~session[i].LoggedIn
                     /\ session[i + 1].LoggedIn = (session[i + 1].req = "query")))
    /\ [][(session' # session /\ fetched'[1].by = "process_and_export"
              /\ (fetched'[1].ret = "none" \/ Len(fetched'[1].data) = 0)) =>
             /\ events' = <<[ret |-> "none", events |-> <<>>]>>
             /\ ml_results' = <<>>
             /\ events_json' = events_json]_vars

\* after an export that wrote the file, a run whose query failed: it returned
\* None and the file is the export
AcquisitionFailureStopsWitness ==
    /\ fetched # <<>> /\ fetched[1].by = "process_and_export" /\ fetched[1].ret = "none"
    /\ Len(session) = 4
    /\ session[4].req = "query"
    /\ events = <<[ret |-> "none", events |-> <<>>]>>
    /\ ml_results = <<>>
    /\ events_json.state = "complete"
    /\ events_json # PrevFile


=============================================================================
